---- MODULE Spec2Model ----
(***************************************************************************)
(* A model of the graph version-control engine of src/messwith_real.py:    *)
(* the commit graph kept in the graph store (Commit, User, Branch and HEAD *)
(* nodes with PARENT, MADE_BY, BASE and POINTS_TO edges), the blob store,  *)
(* the persisted local pointer (commit_config.json), the working           *)
(* directory, and the commands of main().                                  *)
(*                                                                         *)
(* Strings the code takes apart (commit ids, paths, file contents) are     *)
(* sequences of one-character strings.  A Cypher CREATE always makes a new *)
(* node, so Commit and Branch nodes are kept apart from their ids and      *)
(* names; edges are bags, since CREATE can make parallel edges.            *)
(***************************************************************************)
EXTENDS Integers, Sequences, FiniteSets, Bags, TLC

\* ------------------------------------------------------------------ bounds

\* Commands run, one process each, in a behaviour.
MaxSteps == 5

\* ----------------------------------------------------------------- strings

\* Python's None where the code expects a string: ids, paths and messages
\* are never empty, so the empty string stands for it.
None == <<>>

\* The characters that occur, in code-point order (Python compares str by
\* code point).
Alphabet == <<"\n", "\r", ".", "/", "0", "1", "2", "3", "4", "5", "6", "7",
              "8", "9", ":", "_", "a", "b", "c", "d", "e", "f", "i", "m",
              "n", "o", "r", "t", "v", "x", "y", "z">>

CharRank(ch) == CHOOSE i \in 1..Len(Alphabet) : Alphabet[i] = ch

Digits == <<"0", "1", "2", "3", "4", "5", "6", "7", "8", "9">>

IsDigit(ch) == \E i \in 1..10 : Digits[i] = ch

DigitVal(ch) == (CHOOSE i \in 1..10 : Digits[i] = ch) - 1

RECURSIVE DecStr(_)
\* str(n) for n >= 0
DecStr(n) ==
    IF n < 10 THEN <<Digits[n + 1]>>
    ELSE DecStr(n \div 10) \o <<Digits[(n % 10) + 1]>>

RECURSIVE StrLess(_, _)
\* a < b for Python str: lexicographic by code point
StrLess(a, b) ==
    IF a = <<>> THEN b # <<>>
    ELSE IF b = <<>> THEN FALSE
    ELSE IF Head(a) = Head(b) THEN StrLess(Tail(a), Tail(b))
    ELSE CharRank(Head(a)) < CharRank(Head(b))

RECURSIVE SortedStrs(_)
\* sorted(S) for a set S of strings
SortedStrs(S) ==
    IF S = {} THEN <<>>
    ELSE LET m == CHOOSE x \in S : \A y \in S \ {x} : StrLess(x, y)
         IN  <<m>> \o SortedStrs(S \ {m})

RootCommit == <<"r", "o", "o", "t", "_", "c", "o", "m", "m", "i", "t">>

Cid(n) == <<"c">> \o DecStr(n)

\* The id a caller gives its next commit: callers number their commits c1,
\* c2, ..., taking the first number no commit has.
NextCallerId(used) ==
    LET free == {n \in 1..(Cardinality(used) + 1) : Cid(n) \notin used}
    IN  Cid(CHOOSE n \in free : \A m \in free : n <= m)

BranchNames == {"master", "dev"}

Users == {"u1", "u2"}

\* The users who commit; a merge may name any user.
Committers == {"u1"}

\* --message is optional: argparse gives None when it is left out.
Messages == {<<"m">>, None}

\* ------------------------------------------------------------- snapshots

\* A snapshot (and the working directory) is a function from relative paths
\* to file contents.
EmptySnap == [p \in {} |-> <<>>]

SnapX == [p \in {<<"x">>} |-> <<"1">>]

SnapXY == [p \in {<<"x">>, <<"y">>} |-> IF p = <<"x">> THEN <<"1">> ELSE <<"2">>]

\* A directory with a hidden file: os.walk, which read_directory collects
\* the files with, does not skip names that start with '.'.
SnapDot == [p \in {<<".", "e", "n", "v">>} |-> <<"1">>]

\* The directories a caller commits.
Snapshots == {EmptySnap, SnapX, SnapXY, SnapDot}

\* The working directory before the first command: a hidden file and a
\* tracked file that belongs to no commit.
InitWd == [p \in {<<".", "e", "n", "v">>, <<"z">>} |-> <<"0">>]

\* ------------------------------------------------------ fingerprint engine

\* Hex digits a digest is written with; a digest has 40 in the code, fewer here.
Sha1HexLen == 2

HexDigits == <<"0", "1", "2", "3", "4", "5", "6", "7", "8", "9",
               "a", "b", "c", "d", "e", "f">>

RECURSIVE HexWord(_, _)
\* i written with w hex digits
HexWord(i, w) ==
    IF w = 0 THEN <<>>
    ELSE HexWord(i \div 16, w - 1) \o <<HexDigits[(i % 16) + 1]>>

RECURSIVE NormalizeEol(_)
\* content.replace(b'\r\n', b'\n')
NormalizeEol(content) ==
    IF Len(content) < 2 THEN content
    ELSE IF content[1] = "\r" /\ content[2] = "\n"
         THEN <<"\n">> \o NormalizeEol(SubSeq(content, 3, Len(content)))
         ELSE <<content[1]>> \o NormalizeEol(Tail(content))

\* header + content: "blob <size>\0" followed by the content
GitBlob(content) ==
    <<"b", "l", "o", "b", " ">> \o DecStr(Len(content)) \o <<"\\0">> \o content

\* The file contents that occur, normalised.
ContentUniverse == << <<"0">>, <<"1">>, <<"2">>, <<"1", "\n">> >>

\* SHA-1 of a git blob, taken to be collision-free: the blobs of the
\* contents that occur get distinct digests of Sha1HexLen hex digits.
Sha1Hex(blob) ==
    HexWord(CHOOSE i \in 1..Len(ContentUniverse) : GitBlob(ContentUniverse[i]) = blob,
            Sha1HexLen)

\* file_sha1 of one stored object
FileSha1(content) == Sha1Hex(GitBlob(NormalizeEol(content)))

RECURSIVE Combined(_, _)
\* ''.join(f"{path}:{h}" for path, h in sorted(file_hashes)): the string
\* the directory digest is the SHA-1 of.
Combined(paths, snap) ==
    IF paths = <<>> THEN <<>>
    ELSE Head(paths) \o <<":">> \o FileSha1(snap[Head(paths)])
         \o Combined(Tail(paths), snap)

\* directory_sha1 of a snapshot.  SHA-1 is taken to be collision-free, so
\* the digest is held as the string it is computed from: two digests are
\* equal exactly when these strings are.
DirectoryDigest(snap) == Combined(SortedStrs(DOMAIN snap), snap)

\* -------------------------------------------------------------------- state

VARIABLES
    commits,         \* graph store: Commit nodes in creation order, each with
                     \* its id, its PARENT edges (a bag of Commit nodes) and
                     \* its MADE_BY edges (a bag of user ids)
    users,           \* graph store: ids of the User nodes
    branches,        \* graph store: per name, the number of Branch nodes of
                     \* that name (a BASE edge is created and deleted with
                     \* its Branch node, and no query reads it)
    heads,           \* graph store: per name, whether a HEAD node exists and
                     \* the bag of Commit nodes its POINTS_TO edges reach
    latest,          \* commit_config.json: latest_commit_id, None without file
    current_branch,  \* VersionControl.current_branch when the command ended
    bucket,          \* blob store: content per <<commit id, relative path>>
    wd,              \* the working directory: content per relative path
    last,            \* the last command: its arguments and what it reported
    left             \* commands still to run

vars == <<commits, users, branches, heads, latest, current_branch, bucket, wd,
          last, left>>

\* What the graph store, the blob store and the local files hold.
St == [commits |-> commits, users |-> users, branches |-> branches,
       heads |-> heads, latest |-> latest, current_branch |-> current_branch,
       bucket |-> bucket, wd |-> wd]

NoHead == [exists |-> FALSE, to |-> EmptyBag]

\* k edges to each node of S
BagOf(S, k) == IF k = 0 THEN EmptyBag ELSE [e \in S |-> k]

\* --------------------------------------------------------- graph queries

\* MATCH (c:Commit {id: $id})
NodesWithId(s, id) == {n \in 1..Len(s.commits) : s.commits[n].id = id}

\* The ids of the Commit nodes in the graph.
CommitIdsOf(s) == {s.commits[n].id : n \in 1..Len(s.commits)}

\* MATCH (n:HEAD {branch: $b})-[:POINTS_TO]->(c:Commit) RETURN c.id: the
\* ids of the rows.
head_rows(s, b) == {s.commits[n].id : n \in BagToSet(s.heads[b].to)}

\* result.single(): None without a row; with several rows the driver warns
\* and gives the first of an order the store does not fix.
single(rows) == IF rows = {} THEN {None} ELSE rows

branch_exists(s, b) == s.branches[b] > 0

\* session.run of update_head: one row per POINTS_TO edge of the HEAD; each
\* row deletes its edge and creates an edge to every Commit with the id.
update_head(s, b, id) ==
    LET k == BagCardinality(s.heads[b].to)
    IN  IF ~s.heads[b].exists \/ k = 0 THEN s
        ELSE [s EXCEPT !.heads[b].to = BagOf(NodesWithId(s, id), k)]

\* MERGE (c:Commit {id: $commit_id}): a node without edges when none has the id
merge_commit_node(s, id) ==
    IF NodesWithId(s, id) # {} THEN s
    ELSE [s EXCEPT !.commits =
            Append(@, [id |-> id, parents |-> EmptyBag, madeBy |-> EmptyBag])]

create_branch(s, b, id) ==
    LET s1 == merge_commit_node(s, id)
        c  == NodesWithId(s1, id)
    IN  [s1 EXCEPT
            \* CREATE (b:Branch) ... CREATE (b)-[:BASE]->(c)
            !.branches[b] = @ + 1,
            \* MERGE (h:HEAD) ... CREATE (h)-[:POINTS_TO]->(c)
            !.heads[b] = [exists |-> TRUE, to |-> @.to (+) SetToBag(c)]]

\* A terminate_branch that deletes the Branch nodes and leaves the HEAD: C10
\* tells it from the code's.
terminate_branch_keeps_head(s, b) ==
    IF ~branch_exists(s, b) THEN s
    ELSE [s EXCEPT !.branches[b] = 0]

\* A terminate_branch that deletes nothing: C12 tells it from the code's.
terminate_branch_skips(s, b) == s

\* What terminate_branch returns.
terminate_branch_result(s, b) == branch_exists(s, b)

terminate_branch(s, b) ==
    IF ~branch_exists(s, b) THEN s
    \* MATCH (b:Branch) MATCH (h:HEAD) DETACH DELETE b, h: no row without a HEAD
    ELSE IF ~s.heads[b].exists THEN s
    ELSE [s EXCEPT !.branches[b] = 0, !.heads[b] = NoHead]

write_latest_commit(s, id) == [s EXCEPT !.latest = id]

read_latest_commit(s) == s.latest

\* A switch_branch that does not look at the record: C13 tells it from the
\* code's.
switch_branch_unchecked(s, b, record) ==
    write_latest_commit([s EXCEPT !.current_branch = b], record)

switch_branch(s, b, record) ==
    IF record # None
    THEN write_latest_commit([s EXCEPT !.current_branch = b], record)
    ELSE s

create_branch_from_commit(s, b, id, record) ==
    switch_branch(create_branch(s, b, id), b, record)

\* ------------------------------------------------------------- blob store

\* list_objects_v2(Prefix = commit_id + '/') with each object's content: the
\* snapshot stored for a commit id.  s3_store writes only file keys, so no
\* key ends in '/'.
Snapshot(s, id) ==
    [p \in {k[2] : k \in {k \in DOMAIN s.bucket : k[1] = id}} |-> s.bucket[<<id, p>>]]

\* upload_fileobj of every file under base_prefix; an object with the key
\* is replaced.
s3_store(s, files, base_prefix) ==
    LET new == {<<base_prefix, p>> : p \in DOMAIN files}
    IN  [s EXCEPT !.bucket =
            [k \in DOMAIN @ \cup new |-> IF k \in new THEN files[k[2]] ELSE @[k]]]

\* directory_sha1 returned by fetch_version_hash
fetch_version_hash(s, id) == DirectoryDigest(Snapshot(s, id))

\* os.listdir entries whose name starts with '.' stay, with all beneath them.
IsDotEntry(path) == Head(path) = "."

revert_to_commit(s, id) ==
    LET snap == Snapshot(s, id)
        kept == {p \in DOMAIN s.wd : IsDotEntry(p)}
    IN  [s EXCEPT !.wd =
            [p \in kept \cup DOMAIN snap |-> IF p \in DOMAIN snap THEN snap[p] ELSE @[p]]]

\* ----------------------------------------------------------------- commit

\* create_commit; record is what result.single() gave for the HEAD of a
\* branch other than master.
create_commit(s, commit_id, user_id, files, commit_branch, record) ==
    LET parent_commit_id ==
            IF commit_branch = "master" THEN read_latest_commit(s) ELSE record
        \* CREATE (c:Commit) MERGE (u:User) CREATE (c)-[:MADE_BY]->(u)
        s1 == [s EXCEPT
                !.commits = Append(@, [id |-> commit_id, parents |-> EmptyBag,
                                       madeBy |-> SetToBag({user_id})]),
                !.users = @ \cup {user_id}]
        \* MATCH (child {id}), (parent {id}) CREATE (child)-[:PARENT]->(parent)
        child  == NodesWithId(s1, commit_id)
        parent == NodesWithId(s1, parent_commit_id)
        s2 == IF parent_commit_id = None THEN s1
              ELSE [s1 EXCEPT !.commits =
                      [n \in DOMAIN @ |->
                          IF n \in child
                          THEN [@[n] EXCEPT !.parents = @ (+) SetToBag(parent)]
                          ELSE @[n]]]
        s3 == write_latest_commit(s2, commit_id)
        s4 == update_head(s3, commit_branch, commit_id)
    IN  s3_store(s4, files, commit_id)

\* ------------------------------------------------------------------ merge

\* merge_commit_id = string + str(int(number) + 1)
MergeCommitId(last_commit_id) ==
    SubSeq(last_commit_id, 1, Len(last_commit_id) - 1)
        \o DecStr(DigitVal(last_commit_id[Len(last_commit_id)]) + 1)

\* How merge_commit ends: subscripting None raises TypeError, int() of a
\* character that is no digit raises ValueError, and the store refuses a
\* MERGE on a null property (message) with a ClientError.
merge_commit_error(s, message) ==
    LET last_commit_id == read_latest_commit(s)
    IN  IF last_commit_id = None THEN "TypeError"
        ELSE IF ~IsDigit(last_commit_id[Len(last_commit_id)]) THEN "ValueError"
        ELSE IF message = None THEN "ClientError"
        ELSE "none"

\* merge_commit when it raises nothing.  MERGE (c:Commit {id, message,
\* timestamp}) matches no node, the timestamp being new, so it creates one;
\* every row (a, b, u) of the MATCH then creates two PARENT edges and one
\* MADE_BY edge.
merge_commit(s, commit1, commit2, user_id) ==
    LET merge_commit_id == MergeCommitId(read_latest_commit(s))
        a == NodesWithId(s, commit1)
        b == NodesWithId(s, commit2)
        u == IF user_id \in s.users THEN 1 ELSE 0
        parents == BagOf(a, Cardinality(b) * u) (+) BagOf(b, Cardinality(a) * u)
        madeBy  == BagOf({user_id}, Cardinality(a) * Cardinality(b) * u)
    IN  write_latest_commit(
            [s EXCEPT !.commits = Append(@, [id |-> merge_commit_id,
                                             parents |-> parents, madeBy |-> madeBy])],
            merge_commit_id)

RECURSIVE PathsFrom(_, _)
\* MATCH path = (n)-[:PARENT*]->(a) from node n: <<a, length(path)>> of
\* every path of one or more PARENT edges.  A PARENT edge leads from a node
\* to one created before it.
PathsFrom(s, n) ==
    UNION { {<<p, 1>>} \cup {<<q[1], q[2] + 1>> : q \in PathsFrom(s, p)}
            : p \in BagToSet(s.commits[n].parents) }

\* The rows of the ancestor query for the commits with an id: <<a.id, distance>>.
ancestor_rows(s, id) ==
    UNION { {<<s.commits[q[1]].id, q[2]>> : q \in PathsFrom(s, n)}
            : n \in NodesWithId(s, id) }

\* ancestors_for_1 / ancestors_for_2: the loop overwrites the entry of an
\* id with every row of that id, so the entry ends as the distance of the
\* row the store returned last, and the store fixes no order.
ancestors_for(s, id) ==
    LET rows == ancestor_rows(s, id)
        ids  == {r[1] : r \in rows}
    IN  {f \in [ids -> {r[2] : r \in rows}] : \A i \in ids : <<i, f[i]>> \in rows}

\* set(ancestors_for_1.keys()) & set(ancestors_for_2.keys())
common_ancestors(a1, a2) == DOMAIN a1 \cap DOMAIN a2

\* min(ancestors, key = sum of the two entries): among equal sums the
\* first of the set's iteration order, which is not fixed.
lca_choices(a1, a2) ==
    {c \in common_ancestors(a1, a2) :
        \A d \in common_ancestors(a1, a2) : a1[c] + a2[c] <= a1[d] + a2[d]}

\* A chain that looks at the source's digest alone before it takes the first
\* branch: C2 tells it from the code's.
classify_source_first(da, ds, dt) ==
    IF da # ds THEN "source-only"
    ELSE IF da # dt THEN "target-only"
    ELSE "no-op"

\* The branch of the if/elif chain of merge_branches that the digests take.
classify(da, ds, dt) ==
    IF da = dt /\ da # ds THEN "source-only"
    ELSE IF da # dt /\ da = ds THEN "target-only"
    ELSE IF da = dt /\ dt = ds THEN "no-op"
    ELSE "conflict"

\* What merge_branches did, for the record of the last command.
MergeInfo(outcome, raised, class, hs, ht, a1, a2, lca, checkout, node) ==
    [outcome |-> outcome, raised |-> raised, class |-> class,
     head_for_source_id |-> hs, head_for_target_id |-> ht,
     ancestors_for_1 |-> a1, ancestors_for_2 |-> a2, lca_id |-> lca,
     checkout |-> checkout, node |-> node]

\* merge_branches.  rec_s and rec_t are what result.single() gave for the
\* two HEADs, a1 and a2 the ancestor dictionaries as the loops left them,
\* lca_id what min() picked.  Gives the state it leaves and what it did;
\* node is the merge commit's node, 0 when none was created.
merge_branches(s, source_branch, target_branch, user_id, message, rec_s, rec_t, a1, a2, lca_id) ==
    IF rec_s = None \/ rec_t = None
    THEN [st |-> s,
          info |-> MergeInfo("branch-not-found", "ValueError", "none",
                             rec_s, rec_t, a1, a2, None, None, 0)]
    ELSE IF common_ancestors(a1, a2) = {}
    THEN [st |-> s,
          info |-> MergeInfo("no-common-ancestor", "Exception", "none",
                             rec_s, rec_t, a1, a2, None, None, 0)]
    ELSE
    LET class == classify(fetch_version_hash(s, lca_id),
                          fetch_version_hash(s, rec_s),
                          fetch_version_hash(s, rec_t))
        checkout == IF class = "source-only" THEN rec_s
                    ELSE IF class = "target-only" THEN rec_t
                    ELSE None
        s1 == IF checkout = None THEN s ELSE revert_to_commit(s, checkout)
        err == merge_commit_error(s1, message)
        s2 == merge_commit(s1, rec_s, rec_t, user_id)
        s3 == IF class = "source-only" THEN terminate_branch(s2, source_branch) ELSE s2
        s4 == update_head(s3, target_branch, read_latest_commit(s2))
    IN  IF class = "conflict"
        THEN [st |-> s,
              info |-> MergeInfo("conflicting-versions", "ValueError", class,
                                 rec_s, rec_t, a1, a2, lca_id, None, 0)]
        ELSE IF err # "none"
        THEN [st |-> s1,
              info |-> MergeInfo("merge-commit-failed", err, class,
                                 rec_s, rec_t, a1, a2, lca_id, checkout, 0)]
        ELSE [st |-> s4,
              info |-> MergeInfo("merged", "none", class,
                                 rec_s, rec_t, a1, a2, lca_id, checkout,
                                 Len(s2.commits))]

\* main(): the merge command catches ValueError, prints "Merge failed" and
\* goes on to vc.close(); any other exception leaves main() uncaught.
MainExit(raised) ==
    IF raised \in {"none", "ValueError"} THEN "closed" ELSE "uncaught"

\* ------------------------------------------------------------- the commands

\* VersionControl.__init__: every command is a process of its own
Construct(s) == [s EXCEPT !.current_branch = "master"]

\* A command ends and leaves s behind.
Leave(s) ==
    /\ left' = left - 1
    /\ commits' = s.commits
    /\ users' = s.users
    /\ branches' = s.branches
    /\ heads' = s.heads
    /\ latest' = s.latest
    /\ current_branch' = s.current_branch
    /\ bucket' = s.bucket
    /\ wd' = s.wd

\* Before the first command: empty stores, no commit_config.json.
EmptyRepo ==
    [commits |-> <<>>, users |-> {}, branches |-> [b \in BranchNames |-> 0],
     heads |-> [b \in BranchNames |-> NoHead], latest |-> None,
     current_branch |-> "master", bucket |-> [k \in {} |-> <<>>], wd |-> InitWd]

StartFrom(s) ==
    /\ commits = s.commits
    /\ users = s.users
    /\ branches = s.branches
    /\ heads = s.heads
    /\ latest = s.latest
    /\ current_branch = s.current_branch
    /\ bucket = s.bucket
    /\ wd = s.wd
    /\ last = [op |-> "none"]

Init ==
    /\ StartFrom(EmptyRepo)
    /\ left = MaxSteps

\* The ids a caller names in branch and revert: those of the commits, and
\* root_commit.
KnownIds == CommitIdsOf(St) \cup {RootCommit}

\* main() without a command: repository initialisation
main_without_command(s) ==
    IF ~branch_exists(s, s.current_branch)
    THEN write_latest_commit(create_branch(s, s.current_branch, RootCommit), RootCommit)
    ELSE s

Bootstrap ==
    /\ left > 0
    /\ Leave(main_without_command(Construct(St)))
    /\ last' = [op |-> "init", created |-> ~branch_exists(St, "master")]

\* commit <id> <message> <user> <dir> [--branch_name]; the caller supplies
\* an id no commit has (spec: fresh ids are the caller's responsibility).
Commit ==
    /\ left > 0
    /\ \E commit_id \in {NextCallerId(CommitIdsOf(St))}, user_id \in Committers,
       files \in Snapshots, branch \in BranchNames :
      \E record \in single(head_rows(St, branch)) :
        /\ Leave(create_commit(Construct(St), commit_id, user_id, files, branch, record))
        /\ last' = [op |-> "commit", branch |-> branch, id |-> commit_id,
                    node |-> Len(commits) + 1]

\* branch <name> --commit_id <id>
Branch ==
    /\ left > 0
    /\ \E branch_name \in BranchNames, commit_id \in KnownIds :
      LET s1 == create_branch(Construct(St), branch_name, commit_id)
      IN  \E record \in single(head_rows(s1, branch_name)) :
            /\ Leave(create_branch_from_commit(Construct(St), branch_name, commit_id, record))
            /\ last' = [op |-> "branch", name |-> branch_name, id |-> commit_id,
                        existed |-> branch_exists(St, branch_name)]

\* branch <name>
Switch ==
    /\ left > 0
    /\ \E branch_name \in BranchNames :
      \E record \in single(head_rows(St, branch_name)) :
        /\ Leave(switch_branch(Construct(St), branch_name, record))
        /\ last' = [op |-> "switch", name |-> branch_name, record |-> record]

\* revert <commit_id> <dir>
Revert ==
    /\ left > 0
    /\ \E commit_id \in KnownIds :
        /\ Leave(revert_to_commit(Construct(St), commit_id))
        /\ last' = [op |-> "revert", id |-> commit_id]

\* terminate_branch called on its own
Terminate ==
    /\ left > 0
    /\ \E branch_name \in BranchNames :
        /\ Leave(terminate_branch(Construct(St), branch_name))
        /\ last' = [op |-> "terminate", name |-> branch_name,
                    result |-> terminate_branch_result(St, branch_name)]

\* merge <source> <target> <user> <dir> [--message]
Merge ==
    /\ left > 0
    /\ \E source_branch \in BranchNames, target_branch \in BranchNames,
       user_id \in Users, message \in Messages :
      \E rec_s \in single(head_rows(St, source_branch)),
         rec_t \in single(head_rows(St, target_branch)) :
        \E a1 \in ancestors_for(St, rec_s), a2 \in ancestors_for(St, rec_t) :
          \E lca_id \in single(lca_choices(a1, a2)) :
            LET r == merge_branches(Construct(St), source_branch, target_branch,
                                    user_id, message, rec_s, rec_t, a1, a2, lca_id)
            IN  /\ Leave(r.st)
                /\ last' = [op |-> "merge", source |-> source_branch,
                            target |-> target_branch,
                            exit |-> MainExit(r.info.raised), info |-> r.info]

Next ==
    \/ Bootstrap
    \/ Commit
    \/ Branch
    \/ Switch
    \/ Revert
    \/ Terminate
    \/ Merge

Spec == Init /\ [][Next]_vars

\* ------------------------------------------- a repository with a history

\* Commands run from a repository with a merge in its history.
RepoSteps == 2

\* The only dictionary the ancestor loops can leave when no ancestor is
\* reached by paths of different lengths.
TheAncestors(s, id) == CHOOSE f \in ancestors_for(s, id) : TRUE

\* The repository these commands leave, run in this order from EmptyRepo:
\*   (no command)
\*   commit c1 m u1 <empty dir>
\*   branch dev --commit_id c1
\*   commit c2 m u1 <dir x> --branch_name dev
\*   commit c3 m u1 <dir x, y> --branch_name dev
\*   merge dev master u1 <dir> --message m
\* master's HEAD is then at the merge commit c4, whose parents are c3 and c1.
RepoHistory ==
    LET r1 == main_without_command(Construct(EmptyRepo))
        r2 == create_commit(Construct(r1), Cid(1), "u1", EmptySnap, "master", None)
        r3 == create_branch_from_commit(Construct(r2), "dev", Cid(1), Cid(1))
        r4 == create_commit(Construct(r3), Cid(2), "u1", SnapX, "dev", Cid(1))
        r5 == create_commit(Construct(r4), Cid(3), "u1", SnapXY, "dev", Cid(2))
        r6 == merge_branches(Construct(r5), "dev", "master", "u1", <<"m">>,
                             Cid(3), Cid(1), TheAncestors(r5, Cid(3)),
                             TheAncestors(r5, Cid(1)), RootCommit)
    IN  r6.st

InitRepo ==
    /\ StartFrom(RepoHistory)
    /\ left = RepoSteps

SpecRepo == InitRepo /\ [][Next]_vars

\* ------------------------- a repository whose last commit id ends in a letter

\* Commands run from a repository whose local pointer ends in no digit.
NamedSteps == 2

\* The repository these commands leave, run in this order from EmptyRepo:
\*   (no command)
\*   commit c1 m u1 <empty dir>
\*   branch dev --commit_id c1
\*   commit cx m u1 <dir x> --branch_name dev
\* Commit ids are the caller's free choice (parse_args takes any string), and
\* create_commit writes the id to the local pointer, which is then "cx".
NamedHistory ==
    LET r1 == main_without_command(Construct(EmptyRepo))
        r2 == create_commit(Construct(r1), Cid(1), "u1", EmptySnap, "master", None)
        r3 == create_branch_from_commit(Construct(r2), "dev", Cid(1), Cid(1))
    IN  create_commit(Construct(r3), <<"c", "x">>, "u1", SnapX, "dev", Cid(1))

InitNamed ==
    /\ StartFrom(NamedHistory)
    /\ left = NamedSteps

SpecNamed == InitNamed /\ [][Next]_vars

\* ----------------------------------------------- create_commit step by step

\* Commands begun in a behaviour in which create_commit runs step by step.
CommitSteps == 3

\* The order create_commit issues its steps in: the CREATE of the Commit
\* node with its MADE_BY edge, the CREATE of the PARENT edge,
\* write_latest_commit, update_head, s3_store.
commit_steps_head_first == <<"node", "head", "parent", "pointer", "upload">>

commit_steps == <<"node", "parent", "pointer", "head", "upload">>

\* CREATE (c:Commit {id, message, timestamp}) MERGE (u:User {id})
\* CREATE (c)-[:MADE_BY]->(u)
commit_node(s, commit_id, user_id) ==
    [s EXCEPT !.commits = Append(@, [id |-> commit_id, parents |-> EmptyBag,
                                     madeBy |-> SetToBag({user_id})]),
              !.users = @ \cup {user_id}]

\* if parent_commit_id: MATCH (child {id}), (parent {id})
\* CREATE (child)-[:PARENT]->(parent)
commit_parent(s, commit_id, parent_commit_id) ==
    IF parent_commit_id = None THEN s
    ELSE [s EXCEPT !.commits =
            [n \in DOMAIN @ |->
                IF n \in NodesWithId(s, commit_id)
                THEN [@[n] EXCEPT !.parents = @ (+) SetToBag(NodesWithId(s, parent_commit_id))]
                ELSE @[n]]]

\* The files of the commit in progress that s3_store has not uploaded yet.
ToUpload(s, c) == {p \in DOMAIN c.files : <<c.id, p>> \notin DOMAIN s.bucket}

\* The state one step of the create_commit in progress leaves; s3_store
\* uploads one file in a step.
commit_step(s, c, path) ==
    LET step == commit_steps[c.pc]
    IN  IF step = "node" THEN commit_node(s, c.id, c.user)
        ELSE IF step = "parent" THEN commit_parent(s, c.id, c.parent)
        ELSE IF step = "pointer" THEN write_latest_commit(s, c.id)
        ELSE IF step = "head" THEN update_head(s, c.branch, c.id)
        ELSE IF path = None THEN s
        ELSE s3_store(s, [p \in {path} |-> c.files[p]], c.id)

\* The program's state becomes s within a command.
Becomes(s) ==
    /\ commits' = s.commits
    /\ users' = s.users
    /\ branches' = s.branches
    /\ heads' = s.heads
    /\ latest' = s.latest
    /\ current_branch' = s.current_branch
    /\ bucket' = s.bucket
    /\ wd' = s.wd

\* A create_commit is in progress.
Committing == last.op = "create_commit"

InitCommit ==
    /\ StartFrom(EmptyRepo)
    /\ left = CommitSteps

\* commit <id> <message> <user> <dir> [--branch_name]: main() up to the
\* first session of create_commit, which finds the parent's id.
BeginCommit ==
    /\ left > 0
    /\ ~Committing
    /\ \E user_id \in Committers, files \in Snapshots, branch \in BranchNames :
      \E record \in single(head_rows(St, branch)) :
        /\ Becomes(Construct(St))
        /\ left' = left - 1
        /\ last' = [op |-> "create_commit", pc |-> 1,
                    id |-> NextCallerId(CommitIdsOf(St)), user |-> user_id,
                    files |-> files, branch |-> branch,
                    parent |-> IF branch = "master" THEN read_latest_commit(St)
                               ELSE record]

\* The next step of the create_commit in progress.
CommitStep ==
    /\ Committing
    /\ last.pc <= Len(commit_steps)
    /\ \E path \in IF commit_steps[last.pc] = "upload" /\ ToUpload(St, last) # {}
                   THEN ToUpload(St, last) ELSE {None} :
        LET s == commit_step(St, last, path)
            more == commit_steps[last.pc] = "upload" /\ ToUpload(s, last) # {}
        IN  /\ Becomes(s)
            /\ last' = [last EXCEPT !.pc = IF more THEN @ ELSE @ + 1]
    /\ UNCHANGED left

\* The process ends: create_commit has returned, or execution has stopped
\* after the steps taken so far.
StopCommit ==
    /\ Committing
    /\ last' = [last EXCEPT !.op = "stopped"]
    /\ UNCHANGED <<commits, users, branches, heads, latest, current_branch,
                   bucket, wd, left>>

NextCommit ==
    \/ BeginCommit
    \/ CommitStep
    \/ StopCommit
    \/ (~Committing /\ Bootstrap)
    \/ (~Committing /\ Branch)

SpecCommit == InitCommit /\ [][NextCommit]_vars

\* ------------------------------------------- the digests of stored snapshots

\* Objects stored before the digests are taken.
DigestSteps == 4

\* Relative paths of stored files; ':' is an ordinary character of a file name.
DigestPaths == {<<"x">>, <<"y">>, <<"x", ":", "0", "2", "y">>}

\* Contents of stored files.
DigestContents == {<<"1">>, <<"2">>, <<"1", "\n">>, <<"1", "\r", "\n">>}

InitDigest ==
    /\ StartFrom(EmptyRepo)
    /\ left = DigestSteps

\* s3_store of one file under the prefix of c1 or of c2
StoreFile ==
    /\ left > 0
    /\ \E id \in {Cid(1), Cid(2)}, path \in DigestPaths, content \in DigestContents :
        /\ Leave(s3_store(St, [p \in {path} |-> content], id))
        /\ last' = [op |-> "store", id |-> id, path |-> path]

\* fetch_version_hash of c1 and of c2, as merge_branches calls it
FetchHashes ==
    /\ left > 0
    /\ Leave(St)
    /\ last' = [op |-> "hash", hash1 |-> fetch_version_hash(St, Cid(1)),
                hash2 |-> fetch_version_hash(St, Cid(2))]

NextDigest ==
    \/ StoreFile
    \/ FetchHashes

SpecDigest == InitDigest /\ [][NextDigest]_vars

\* ------------------------------------------------------------ the claims

\* The last command was a merge.
WasMerge == last.op = "merge"

\* The last command was a merge that returned from merge_branches.
Merged == WasMerge /\ last.info.outcome = "merged"

\* The entries of a directory whose top-level name does not start with '.'.
Tracked(dir) == [p \in {q \in DOMAIN dir : ~IsDotEntry(q)} |-> dir[p]]

\* The least length of a PARENT path from a commit with id from to one with
\* id to (there is one).
MinDistance(s, from, to) ==
    LET lens == {r[2] : r \in {q \in ancestor_rows(s, from) : q[1] = to}}
    IN  CHOOSE d \in lens : \A e \in lens : d <= e

\* The ids of the commits reached from the commits with an id by one or more
\* PARENT edges.
ReachedFrom(s, id) == {r[1] : r \in ancestor_rows(s, id)}

\* The target's HEAD points at the one commit a and the source's HEAD at the
\* one commit c, a child of a (one PARENT edge, to a) whose snapshot is not a's.
FastForwardCase(s, source, target, c, a) ==
    /\ s.heads[target].to = SetToBag({a})
    /\ s.heads[source].to = SetToBag({c})
    /\ s.commits[c].parents = SetToBag({a})
    /\ Snapshot(s, s.commits[c].id) # Snapshot(s, s.commits[a].id)

\* C1: whenever the target's HEAD is at a commit A and the source's HEAD at
\* a child S of A with a different snapshot, the merge of source into target
\* (one given a message) does not fail, is classified source-only-changed,
\* leaves the tracked content of the working directory equal to S's
\* snapshot, and leaves the target's HEAD pointing at the merge commit it
\* has just created.
C1_FastForwardMerges ==
    [][ \A c, a \in 1..Len(commits) :
          ( /\ last'.op = "merge"
            /\ last'.info.raised # "ClientError"
            /\ FastForwardCase(St, last'.source, last'.target, c, a) )
          => /\ last'.info.outcome = "merged"
             /\ last'.info.class = "source-only"
             /\ Tracked(wd') = Snapshot(St, commits[c].id)
             /\ last'.info.node = Len(commits) + 1
             /\ heads'[last'.target].to = SetToBag({last'.info.node}) ]_vars

\* C2: whenever the directory digests of the source HEAD and of the target
\* HEAD both differ from the digest of the LCA, the merge fails with
\* conflicting-versions (a failure the command reports), and the graph (commits,
\* users, branches, HEADs), the local pointer, the blob store and the working
\* directory are as they were.
C2_ConflictTouchesNothing ==
    [][ ( /\ last'.op = "merge"
          /\ last'.info.lca_id # None
          /\ fetch_version_hash(St, last'.info.head_for_source_id)
                # fetch_version_hash(St, last'.info.lca_id)
          /\ fetch_version_hash(St, last'.info.head_for_target_id)
                # fetch_version_hash(St, last'.info.lca_id) )
        => /\ last'.info.outcome = "conflicting-versions"
           /\ last'.exit = "closed"
           /\ UNCHANGED <<commits, users, branches, heads, latest, bucket, wd>> ]_vars

\* C2's case: a merge failed with conflicting-versions, the two HEADs' digests
\* differing from the LCA's and from each other.
C2_Witness ==
    /\ WasMerge
    /\ last.info.outcome = "conflicting-versions"
    /\ fetch_version_hash(St, last.info.head_for_source_id)
          # fetch_version_hash(St, last.info.head_for_target_id)
    /\ fetch_version_hash(St, last.info.head_for_source_id)
          # fetch_version_hash(St, last.info.lca_id)
    /\ fetch_version_hash(St, last.info.head_for_target_id)
          # fetch_version_hash(St, last.info.lca_id)

\* C3: the HEAD of every branch has exactly one POINTS_TO edge.
C3_HeadPointsAtOneCommit ==
    \A b \in BranchNames :
        branch_exists(St, b) =>
            heads[b].exists /\ BagCardinality(heads[b].to) = 1

\* C4: the merge commit a merge has created has exactly two PARENT edges,
\* one to the commit the source HEAD pointed at and one to the commit the
\* target HEAD pointed at.
C4_MergeCommitHasTwoParents ==
    Merged =>
        \E a \in NodesWithId(St, last.info.head_for_source_id),
           b \in NodesWithId(St, last.info.head_for_target_id) :
            commits[last.info.node].parents = SetToBag({a}) (+) SetToBag({b})

\* C5: when the digests of the source HEAD, the target HEAD and the LCA are
\* all equal, the merge (one given a message) leaves the working directory
\* as it was, creates a merge commit with two PARENT edges and moves the
\* target's HEAD to it.
C5_NoOpMerge ==
    [][ ( /\ last'.op = "merge"
          /\ last'.info.lca_id # None
          /\ last'.info.raised # "ClientError"
          /\ fetch_version_hash(St, last'.info.head_for_source_id)
                = fetch_version_hash(St, last'.info.lca_id)
          /\ fetch_version_hash(St, last'.info.head_for_target_id)
                = fetch_version_hash(St, last'.info.lca_id) )
        => /\ wd' = wd
           /\ last'.info.node = Len(commits) + 1
           /\ BagCardinality(commits'[last'.info.node].parents) = 2
           /\ BagToSet(heads'[last'.target].to) = {last'.info.node} ]_vars

\* C6: the commit a merge uses as LCA is reached from both HEAD commits by
\* PARENT edges, and no commit reached from both has a smaller sum of least
\* path lengths from the two HEADs; the merge fails with no-common-ancestor
\* only when no commit is reached from both.
C6_LcaMinimisesDistance ==
    [][ last'.op = "merge" =>
        LET hs == last'.info.head_for_source_id
            ht == last'.info.head_for_target_id
            common == ReachedFrom(St, hs) \cap ReachedFrom(St, ht)
            sum(c) == MinDistance(St, hs, c) + MinDistance(St, ht, c)
        IN  /\ last'.info.lca_id # None =>
                /\ last'.info.lca_id \in common
                /\ \A c \in common : sum(last'.info.lca_id) <= sum(c)
            /\ last'.info.outcome = "no-common-ancestor" => common = {} ]_vars

\* C7: the distance a merge records for each ancestor of a HEAD commit is
\* the least length of a PARENT path from that HEAD to the ancestor.
C7_RecordedDistanceIsLeast ==
    [][ last'.op = "merge" =>
        /\ \A c \in DOMAIN last'.info.ancestors_for_1 :
              last'.info.ancestors_for_1[c]
                = MinDistance(St, last'.info.head_for_source_id, c)
        /\ \A c \in DOMAIN last'.info.ancestors_for_2 :
              last'.info.ancestors_for_2[c]
                = MinDistance(St, last'.info.head_for_target_id, c) ]_vars

\* C8: a merge that fails with branch-not-found, no-common-ancestor or
\* conflicting-versions is reported by the command, which goes on to its
\* normal close.
C8_MergeFailureIsReported ==
    (WasMerge /\ last.info.outcome \in
        {"branch-not-found", "no-common-ancestor", "conflicting-versions"})
    => last.exit = "closed"

\* C9: no two Commit nodes share an id (callers supply only unused ids to
\* commit).
C9_CommitIdsUnique ==
    \A m, n \in 1..Len(commits) : commits[m].id = commits[n].id => m = n

\* C10: right after create_branch(B, C) for a B that did not exist, the HEAD
\* lookup for B gives C; after terminate_branch(B) for a B that existed, B
\* has neither a Branch node nor a HEAD node.
C10_BranchLifecycle ==
    /\ (last.op = "branch" /\ ~last.existed)
        => head_rows(St, last.name) = {last.id}
    /\ (last.op = "init" /\ last.created)
        => head_rows(St, "master") = {RootCommit}
    /\ (last.op = "terminate" /\ last.result)
        => ~branch_exists(St, last.name) /\ ~heads[last.name].exists
    /\ (Merged /\ last.info.class = "source-only")
        => ~branch_exists(St, last.source) /\ ~heads[last.source].exists

\* C10's case: terminate_branch has deleted a branch that existed, with its
\* HEAD, and another branch stays.
C10_Witness ==
    /\ last.op = "terminate"
    /\ last.result
    /\ last.name = "dev"
    /\ ~branch_exists(St, "dev")
    /\ ~heads["dev"].exists
    /\ branch_exists(St, "master")

\* C11: after a merge that succeeded, the commits the target's HEAD points at
\* are the merge commit this merge created and no other, and the local
\* pointer holds the merge commit's id.
C11_HeadAndPointerAtMergeCommit ==
    Merged =>
        /\ heads[last.target].exists
        /\ BagToSet(heads[last.target].to) = {last.info.node}
        /\ latest = commits[last.info.node].id

\* The source branch and its HEAD are as they were before the command.
SourceKept ==
    /\ branches'[last'.source] = branches[last'.source]
    /\ branches[last'.source] > 0
    /\ heads'[last'.source] = heads[last'.source]
    /\ heads[last'.source].exists

\* The source branch has neither a Branch node nor a HEAD node any more.
SourceTerminated ==
    /\ branches'[last'.source] = 0
    /\ ~heads'[last'.source].exists

\* C12 as stated: a merge that succeeded has terminated the source branch
\* when it was classified source-only-changed, and has otherwise left the
\* source branch and its HEAD, with what it points at, as they were.
C12_SourceTerminatedIffSourceOnly ==
    [][ (last'.op = "merge" /\ last'.info.outcome = "merged")
        => IF last'.info.class = "source-only" THEN SourceTerminated
           ELSE SourceKept ]_vars

\* C12 for a merge of one branch into another: a merge of source into a
\* different target that succeeded has terminated the source branch when it
\* was classified source-only-changed, and has otherwise left the source
\* branch and its HEAD, with what it points at, as they were.
C12_SourceTerminatedIffSourceOnlyDistinct ==
    [][ ( /\ last'.op = "merge"
          /\ last'.info.outcome = "merged"
          /\ last'.source # last'.target )
        => IF last'.info.class = "source-only" THEN SourceTerminated
           ELSE SourceKept ]_vars

\* C12's case: a merge into another branch was classified source-only-changed
\* and the source branch is gone, the target's still there.
C12_Witness ==
    /\ Merged
    /\ last.info.class = "source-only"
    /\ last.source # last.target
    /\ ~branch_exists(St, last.source)
    /\ ~heads[last.source].exists
    /\ branch_exists(St, last.target)

\* C13: switch_branch(name) leaves the graph, the blob store and the working
\* directory as they were; when name has a HEAD it sets the local pointer
\* to a commit that HEAD points at and the active branch to name; when
\* name has none it reports not-found (no record) and leaves the local
\* pointer and the active branch of the process as they were.  The switch
\* at the end of create_branch_from_commit does the same on the new HEAD.
C13_SwitchBranch ==
    [][ /\ last'.op = "switch" =>
            /\ UNCHANGED <<commits, users, branches, heads, bucket, wd>>
            /\ IF head_rows(St, last'.name) # {}
               THEN /\ last'.record \in head_rows(St, last'.name)
                    /\ latest' = last'.record
                    /\ current_branch' = last'.name
               ELSE /\ last'.record = None
                    /\ latest' = latest
                    /\ current_branch' = Construct(St).current_branch
        /\ last'.op = "branch" =>
            /\ latest' \in {commits'[n].id : n \in BagToSet(heads'[last'.name].to)}
            /\ current_branch' = last'.name ]_vars

\* C13's case: a switch to dev, whose HEAD is at another commit than
\* master's, has set the local pointer to that commit.
C13_Witness ==
    /\ last.op = "switch"
    /\ last.name = "dev"
    /\ last.record # None
    /\ latest = last.record
    /\ current_branch = "dev"
    /\ head_rows(St, "master") # {}
    /\ latest \notin head_rows(St, "master")

\* C14: after revert_to_commit(C, dir) the entries of dir whose top-level
\* name does not start with '.' are exactly the snapshot stored under C/,
\* and a second revert to C would leave dir as the first did.
C14_RevertGivesSnapshot ==
    [][ last'.op = "revert" =>
        /\ Tracked(wd') = Snapshot(St, last'.id)
        /\ revert_to_commit([St EXCEPT !.wd = wd'], last'.id).wd = wd' ]_vars

\* C15: every branch name has at most one Branch node, and a HEAD node
\* exactly when it has a Branch node.
C15_OneBranchOneHead ==
    \A b \in BranchNames :
        /\ branches[b] <= 1
        /\ heads[b].exists <=> branches[b] > 0

\* C16: every Commit node has exactly one MADE_BY edge.
C16_EveryCommitMadeByOneUser ==
    \A n \in 1..Len(commits) : BagCardinality(commits[n].madeBy) = 1

\* C17: the directory digests fetch_version_hash gives for two stored
\* snapshots are equal exactly when the snapshots hold the same (path,
\* content) pairs (SHA-1 taken to be collision-free).
C17_DigestTellsSnapshotsApart ==
    last.op = "hash" =>
        (last.hash1 = last.hash2 <=> Snapshot(St, Cid(1)) = Snapshot(St, Cid(2)))

\* A create_commit is in progress or has ended, in full or after some of
\* its steps.
InCommit == last.op \in {"create_commit", "stopped"}

\* A HEAD points at the commit that create_commit is creating.
NewCommitPointedAt ==
    \E b \in BranchNames :
        BagToSet(heads[b].to) \cap NodesWithId(St, last.id) # {}

\* C18: after any prefix of the steps of create_commit every HEAD points at
\* a Commit node; a HEAD points at the new commit only when the commit has
\* its MADE_BY edge and its PARENT edge and the local pointer names it; and
\* blobs are uploaded only when the branch's HEAD, if there is one, points at
\* the new commit.  So a prefix leaves either a commit no HEAD points at or
\* a HEAD at a complete commit whose blobs are not all uploaded.
C18_PrefixesKeepHeadsSound ==
    /\ \A b \in BranchNames :
          heads[b].exists =>
              /\ heads[b].to # EmptyBag
              /\ BagToSet(heads[b].to) \subseteq 1..Len(commits)
    /\ InCommit =>
          /\ NewCommitPointedAt =>
                /\ latest = last.id
                /\ \A n \in NodesWithId(St, last.id) :
                      /\ commits[n].madeBy = SetToBag({last.user})
                      /\ last.parent # None =>
                            commits[n].parents
                              = SetToBag(NodesWithId(St, last.parent))
          /\ Snapshot(St, last.id) # EmptySnap =>
                (heads[last.branch].exists => NewCommitPointedAt)
          /\ \A p \in DOMAIN Snapshot(St, last.id) :
                /\ p \in DOMAIN last.files
                /\ Snapshot(St, last.id)[p] = last.files[p]

\* C18's case: execution stopped after update_head and before the upload
\* was over: a HEAD points at the new commit, which has its PARENT edge, and
\* a file of the commit is not in the blob store.
C18_Witness ==
    /\ last.op = "stopped"
    /\ NewCommitPointedAt
    /\ \E n \in NodesWithId(St, last.id) : commits[n].parents # EmptyBag
    /\ ToUpload(St, last) # {}

\* The entries of a directory whose top-level name starts with '.'.
Hidden(dir) == [p \in {q \in DOMAIN dir : IsDotEntry(q)} |-> dir[p]]

\* C19: revert_to_commit leaves the entries of the directory whose
\* top-level name starts with '.' as they were, whatever the snapshot holds.
C19_RevertKeepsHiddenEntries ==
    [][ last'.op = "revert" => Hidden(wd') = Hidden(wd) ]_vars

\* C20: the commit that create_commit creates on a branch whose HEAD points
\* at one commit has one PARENT edge, to that commit.
C20_ParentIsBranchHead ==
    [][ ( /\ last'.op = "commit"
          /\ heads[last'.branch].exists
          /\ BagCardinality(heads[last'.branch].to) = 1 )
        => commits'[last'.node].parents = heads[last'.branch].to ]_vars

\* C21: after a merge that succeeded, the snapshot stored for the merge
\* commit is the content the merge left in the working directory: the
\* snapshot of the source's HEAD commit when the merge was classified
\* source-only-changed, that of the target's HEAD commit otherwise.
C21_MergeCommitHoldsMergedContent ==
    Merged =>
        Snapshot(St, commits[last.info.node].id)
          = Snapshot(St, IF last.info.class = "source-only"
                         THEN last.info.head_for_source_id
                         ELSE last.info.head_for_target_id)

\* C22: a merge that ends in failure, whatever the reason, leaves the commit
\* graph, the branches, the HEADs, the local pointer and the working
\* directory as they were.
C22_FailedMergeChangesNothing ==
    [][ (last'.op = "merge" /\ last'.info.outcome # "merged")
        => UNCHANGED <<commits, users, branches, heads, latest, wd>> ]_vars

====
